---- MODULE Spec2Model ----
(***************************************************************************)
(* Healthcare subscription plans: the simulation engine                    *)
(* (simulation/engine.py), the Poisson visit generator, the monthly bill   *)
(* of the engine, of calculate_profitability and of the /simulation/profit *)
(* route.                                                                  *)
(*                                                                         *)
(* Numbers.  Money and visit counts are integers (every price of the       *)
(* catalog is an integer and the accumulators start at 0.0, so the floats  *)
(* of the program hold integers exactly).  float('inf') and the -inf that  *)
(* arithmetic on it produces are the pairs PosInf and NegInf; a finite     *)
(* number n is Fin(n).  Rates (lam) are in tenths, uniform draws in        *)
(* hundredths, and the Knuth product p and its limit L = exp(-lam) are     *)
(* fixed-point numbers with KnuthScale units for 1.0.                      *)
(***************************************************************************)
EXTENDS Integers, Sequences, FiniteSets, Bags, TLC

\* ------------------------------------------------------------------ bounds
\* Largest population handed to run().
MaxUsers == 2
\* Largest visit count handed to the bill functions.
MaxVisit == 31
\* Largest number of uniform draws one Knuth sample may take.
MaxDraws == 5
\* Largest population of the runs on other engine configurations.
MaxSmallUsers == 1
MaxTapeUsers == 2
MaxReportRows == 3
MaxRuns == 2
MaxPlanUsers == 6
\* Largest number of UserSubscription rows.
MaxSubs == 2

\* ------------------------------------------------------------------ program constants
Months == 12
HealthyBelow == 50
AverageBelow == 80
KnuthScale == 1000000
HOSPITAL_COST_PER_VISIT == 30
EngineCostPerVisit1122 == 30
COST_PER_VISIT == 10

\* ------------------------------------------------------------------ extended numbers
Fin(n) == <<0, n>>
PosInf == <<1, 0>>
NegInf == <<-1, 0>>

IsFin(x) == x[1] = 0

\* a - b for a finite a and an extended b (Python float arithmetic: n - inf = -inf).
ExtSub(a, b) == IF IsFin(b) THEN Fin(a - b[2]) ELSE IF b = PosInf THEN NegInf ELSE PosInf

\* max(0, x) for an extended x; only finite and -inf arguments arise.
ExtMax0(x) == IF IsFin(x) THEN (IF x[2] > 0 THEN x[2] ELSE 0) ELSE 0

Max(a, b) == IF a >= b THEN a ELSE b

\* ------------------------------------------------------------------ the catalog
\* SimulationEngine.__init__: self.plans.
EnginePlans ==
  << [name |-> "Lite",      price |-> 20,  included |-> Fin(2),  extra |-> 15],
     [name |-> "Standard",  price |-> 50,  included |-> Fin(6),  extra |-> 10],
     [name |-> "Chronic",   price |-> 90,  included |-> Fin(12), extra |-> 5],
     [name |-> "Unlimited", price |-> 150, included |-> PosInf,  extra |-> 0] >>

\* SimulationEngine.__init__: self.cost_per_visit.
EngineCostPerVisit == 10

\* SimulationEngine.run: the lam literals, in tenths (0.2, 0.6, 2.5).
EngineRates == [Healthy |-> 2, Average |-> 6, Chronic |-> 25]

\* The engine of 22 November: the same run(), other literals.
EnginePlans1122 ==
  << [name |-> "Lite Plan",         price |-> 20,  included |-> Fin(2),  extra |-> 15],
     [name |-> "Standard Plan",     price |-> 50,  included |-> Fin(6),  extra |-> 10],
     [name |-> "Chronic Care Plan", price |-> 90,  included |-> Fin(12), extra |-> 5],
     [name |-> "Unlimited Plan",    price |-> 150, included |-> PosInf,  extra |-> 0] >>
EngineRates1122 == [Healthy |-> 10, Average |-> 50, Chronic |-> 120]

EngineVersions ==
  { [plans |-> EnginePlans, cost_per_visit |-> EngineCostPerVisit, rates |-> EngineRates],
    [plans |-> EnginePlans1122, cost_per_visit |-> EngineCostPerVisit1122, rates |-> EngineRates1122] }

\* subscription_simulator: the module-level PLANS dict, in insertion order.
PLANS ==
  << [name |-> "Lite",         price |-> 20,  included_visits |-> Fin(2),  extra_visit_price |-> 15],
     [name |-> "Standard",     price |-> 50,  included_visits |-> Fin(6),  extra_visit_price |-> 10],
     [name |-> "Chronic Care", price |-> 90,  included_visits |-> Fin(12), extra_visit_price |-> 5],
     [name |-> "Unlimited",    price |-> 150, included_visits |-> PosInf,  extra_visit_price |-> 0] >>

\* app.seed_plans: the SubscriptionPlan rows; included_visits is an Integer
\* column and -1 denotes "Unlimited".
SeededPlans ==
  << [name |-> "Lite Plan",         price |-> 20,  included_visits |-> 2,  extra_visit_price |-> 15],
     [name |-> "Standard Plan",     price |-> 50,  included_visits |-> 6,  extra_visit_price |-> 10],
     [name |-> "Chronic Care Plan", price |-> 90,  included_visits |-> 12, extra_visit_price |-> 5],
     [name |-> "Unlimited Plan",    price |-> 150, included_visits |-> -1, extra_visit_price |-> 0] >>

\* ------------------------------------------------------------------ the monthly bill
\* A bill that charges overage on the unlimited plan as if nothing were included.
MonthlyBillNoInfCheck(plan, visits) ==
  plan.price + (IF IsFin(plan.included) THEN Max(0, visits - plan.included[2]) ELSE visits) * plan.extra

\* A bill that charges every visit beyond the allotment and refunds unused ones.
MonthlyBillNoClamp(plan, visits) ==
  plan.price + (IF plan.included = PosInf THEN 0 ELSE visits - plan.included[2]) * plan.extra

\* A bill whose overage counts the unused visits instead of the extra ones.
MonthlyBillSwapped(plan, visits) ==
  plan.price + (IF plan.included = PosInf THEN 0 ELSE Max(0, plan.included[2] - visits)) * plan.extra

\* SimulationEngine.run, the body of `for plan in self.plans`.
MonthlyBill(plan, visits) ==
  LET overage == IF plan.included = PosInf
                 THEN 0
                 ELSE Max(0, visits - plan.included[2])
  IN  plan.price + (overage * plan.extra)

\* calculate_profitability(plan_name, visits): (revenue, cost, profit); the
\* plan is PLANS[plan_name].
calculate_profitability(plan, visits) ==
  LET extra_visits == ExtMax0(ExtSub(visits, plan.included_visits))
      revenue == plan.price + (extra_visits * plan.extra_visit_price)
      cost == visits * HOSPITAL_COST_PER_VISIT
  IN  [revenue |-> revenue, cost |-> cost, profit |-> revenue - cost]

\* A route that does not know the -1 sentinel.
RouteRevenueNoSentinel(plan, simulated_visits) ==
  plan.price + (Max(0, simulated_visits - plan.included_visits) * plan.extra_visit_price)

\* simulate_profit, the body of `for sub in subs` up to `revenue`.
RouteRevenue(plan, simulated_visits) ==
  LET extra_visits == IF plan.included_visits = -1
                      THEN 0
                      ELSE Max(0, simulated_visits - plan.included_visits)
  IN  plan.price + (extra_visits * plan.extra_visit_price)

\* ------------------------------------------------------------------ Python dict
\* A dict is the sequence of its <<key, value>> items in insertion order.
DictHas(d, key) == \E i \in 1..Len(d) : d[i][1] = key

DictGet(d, key) == d[CHOOSE i \in 1..Len(d) : d[i][1] = key][2]

\* d[key] = value: an existing key keeps its position.
DictSet(d, key, value) ==
  IF DictHas(d, key)
  THEN [i \in 1..Len(d) |-> IF d[i][1] = key THEN <<key, value>> ELSE d[i]]
  ELSE Append(d, <<key, value>>)

\* A scan that lets a later key of equal value replace the best one.
RECURSIVE MinKeyScanLastWins(_, _, _)
MinKeyScanLastWins(d, i, best) ==
  IF i > Len(d) THEN d[best][1]
  ELSE MinKeyScanLastWins(d, i + 1, IF d[i][2] <= d[best][2] THEN i ELSE best)

\* A scan that keeps the largest value.
RECURSIVE MinKeyScanMax(_, _, _)
MinKeyScanMax(d, i, best) ==
  IF i > Len(d) THEN d[best][1]
  ELSE MinKeyScanMax(d, i + 1, IF d[i][2] > d[best][2] THEN i ELSE best)

\* min(d, key=d.get), the scan of the builtin: the keys in insertion order,
\* the best one replaced only by a strictly smaller value.
RECURSIVE MinKeyScan(_, _, _)
MinKeyScan(d, i, best) ==
  IF i > Len(d) THEN d[best][1]
  ELSE MinKeyScan(d, i + 1, IF d[i][2] < d[best][2] THEN i ELSE best)

PyMinKeyLastWins(d) == MinKeyScanLastWins(d, 2, 1)

PyMinKeyMax(d) == MinKeyScanMax(d, 2, 1)

PyMinKey(d) == MinKeyScan(d, 2, 1)

\* {p['name']: 0.0 for p in self.plans}
RECURSIVE ZeroCosts(_, _, _)
ZeroCosts(ps, i, d) ==
  IF i > Len(ps) THEN d ELSE ZeroCosts(ps, i + 1, DictSet(d, ps[i].name, 0))

\* A month in which every plan after the first is priced on a draw of its own.
RECURSIVE AddBillsOwnDraw(_, _, _, _)
AddBillsOwnDraw(d, ps, i, visits) ==
  IF i > Len(ps) THEN d
  ELSE AddBillsOwnDraw(DictSet(d, ps[i].name,
                               DictGet(d, ps[i].name)
                                 + MonthlyBill(ps[i], IF i = 1 THEN visits ELSE visits + 1)),
                       ps, i + 1, visits)

\* for plan in self.plans: plan_annual_costs[plan['name']] += monthly_bill
RECURSIVE AddBills(_, _, _, _)
AddBills(d, ps, i, visits) ==
  IF i > Len(ps) THEN d
  ELSE AddBills(DictSet(d, ps[i].name, DictGet(d, ps[i].name) + MonthlyBill(ps[i], visits)),
                ps, i + 1, visits)

\* ------------------------------------------------------------------ state
VARIABLES
  plans,                \* self.plans
  cost_per_visit,       \* self.cost_per_visit
  table_exists,         \* the database has a table simulation_results
  table,                \* its rows, in insertion order
  pc,                   \* "idle", "loop", "months", "done", "reported", "failed"
  exception,            \* the exception the last call raised, or "none"
  num_users,            \* run(): the argument
  user_id,              \* run(): the loop variable
  data_rows,            \* run(): data_rows
  user_type,            \* run(): user_type
  lam,                  \* run(): lam, in tenths
  plan_annual_costs,    \* run(): plan_annual_costs
  total_annual_visits,  \* run(): total_annual_visits
  month,                \* run(): months of the inner loop done
  report,               \* analyze(): what it has printed
  month_log,            \* history: the bag of the current user's monthly draws
  row_months,           \* history: for each recorded row, the bag of its user's 12 draws
  bill_pc, bill_plan, v1, v2, bill1, bill2,        \* one application of a bill function
  USE_NUMPY, po_pc, lam_arg, L, k, p, po_ret,      \* one call of _generate_poisson_visit
  rates,                \* run(): the rate literals of the three segments, in tenths
  seg_pc, seg_rand_val, segment,                  \* one evaluation of the segment branch of run()
  tape,                 \* the random source: per user, the uniform draw and the 12 visit draws
  sql_ties,             \* the order in which this SQLite returns groups of equal count
  run_no,               \* executions of run() started on this source
  first,                \* what the first execution left: rows, report, exception
  sim_pc,               \* run_simulation(): "idle", "loop", "draws", "done"
  sim_num_users,        \* run_simulation(): num_users
  sim_user_id,          \* run_simulation(): the loop variable
  u_type,               \* run_simulation(): u_type
  sim_lam,              \* run_simulation(): lam, in tenths
  total_visits,         \* run_simulation(): the sum of the draws taken so far
  sim_month,            \* run_simulation(): draws of the comprehension taken
  sim_table,            \* simulation_results as the connection sees it
  sim_committed,        \* simulation_results as of the last commit
  sim_log,              \* history: the bag of the current user's monthly draws
  sim_row_months,       \* history: for each inserted row, the bag of its user's 12 draws
  pp_pc,                \* per-plan run_simulation(): "idle", "loop", "done", "failed"
  pp_num_users,         \* per-plan run_simulation(): num_users
  pp_user_types,        \* per-plan run_simulation(): user_types, shuffled
  pp_user_id,           \* per-plan run_simulation(): the loop variable
  pp_results,           \* per-plan run_simulation(): results
  pp_table,             \* its simulation_results table
  pp_exception,         \* the exception the call raised, or "none"
  web_pc,               \* the request in flight: "idle", "received", "handler", "responded"
  route,                \* the view function the request is routed to
  cookie,               \* request.cookies.get('jwt')
  data,                 \* request.get_json()
  g_user_id,            \* g.user_id
  subscriptions,        \* the UserSubscription rows, in insertion order
  status,               \* the status code of the response
  body,                 \* the JSON of the response
  profit_total_visits,  \* profit(): total_visits
  ran                   \* history: the wrapped view function was called for this request

runVars == <<plans, cost_per_visit, table_exists, table, pc, exception, num_users,
             user_id, data_rows, user_type, lam, plan_annual_costs,
             total_annual_visits, month, report, month_log, row_months, rates>>
billVars == <<bill_pc, bill_plan, v1, v2, bill1, bill2>>
poVars == <<USE_NUMPY, po_pc, lam_arg, L, k, p, po_ret>>
segVars == <<seg_pc, seg_rand_val, segment>>
replayVars == <<tape, sql_ties, run_no, first>>
simVars == <<sim_pc, sim_num_users, sim_user_id, u_type, sim_lam, total_visits, sim_month,
             sim_table, sim_committed, sim_log, sim_row_months>>
ppVars == <<pp_pc, pp_num_users, pp_user_types, pp_user_id, pp_results, pp_table, pp_exception>>
webVars == <<web_pc, route, cookie, data, g_user_id, subscriptions, status, body,
             profit_total_visits, ran>>
laterVars == <<ppVars, webVars>>
restVars == <<segVars, replayVars, simVars, laterVars>>
vars == <<runVars, billVars, poVars, restVars>>

\* What a step of the engine, of a bill function, of the visit generator leaves alone.
runAside == <<billVars, poVars, restVars>>
billAside == <<runVars, poVars, restVars>>
poAside == <<runVars, billVars, restVars>>
segAside == <<runVars, billVars, poVars, replayVars, simVars, laterVars>>
replayAside == <<billVars, poVars, segVars, simVars, laterVars>>
simAside == <<runVars, billVars, poVars, segVars, replayVars, laterVars>>
ppAside == <<runVars, billVars, poVars, segVars, replayVars, simVars, webVars>>
webAside == <<runVars, billVars, poVars, segVars, replayVars, simVars, ppVars>>

\* ------------------------------------------------------------------ inputs
\* random.random() in run(): draws in hundredths, on both sides of each threshold.
UniformDraws == {0, 49, 50, 79, 80, 99}

\* The monthly draws tried for each rate: a sample of the values a Poisson
\* draw of a positive rate can return.
VisitSupport(rate) ==
  IF rate \in {2, 10} THEN {0, 4} ELSE IF rate \in {6, 50} THEN {4, 6} ELSE {6, 30}

\* An SQL value is Null or Val(x); an average is the fraction <<sum, count>>.
Null == <<>>
Val(x) == <<x>>

\* A value no call has bound yet.
Unbound == <<>>
NoReport == [total_users |-> <<>>, total_profit |-> <<>>, avg_profit |-> <<>>,
             plan_dist |-> <<>>, type_econ |-> {}]

\* ------------------------------------------------------------------ SimulationEngine.run
\* The locals of run() before the loop binds them, and after run() returns.
\* A local that is not bound holds the empty value of its type (0, "", <<>>),
\* so that every variable keeps one type; no action reads it.
LocalsUnbound ==
  /\ user_type' = ""
  /\ lam' = 0
  /\ plan_annual_costs' = Unbound
  /\ total_annual_visits' = 0
  /\ month' = 0

\* A setup_db() that creates the table only if it is missing and drops nothing.
RunStartNoDrop(n) ==
  /\ pc \in {"idle", "done", "reported", "failed"}
  /\ pc' = "loop"
  /\ exception' = "none"
  /\ num_users' = n
  /\ table_exists' = TRUE
  /\ data_rows' = <<>>
  /\ user_id' = 1
  /\ LocalsUnbound
  /\ report' = NoReport
  /\ month_log' = EmptyBag
  /\ row_months' = <<>>
  /\ UNCHANGED <<plans, cost_per_visit, rates, table>>

\* run(n), up to the head of the user loop: setup_db() drops and recreates
\* the table, data_rows = [].
RunStart(n) ==
  /\ pc \in {"idle", "done", "reported", "failed"}
  /\ pc' = "loop"
  /\ exception' = "none"
  /\ num_users' = n
  /\ table_exists' = TRUE
  /\ table' = <<>>
  /\ data_rows' = <<>>
  /\ user_id' = 1
  /\ LocalsUnbound
  /\ report' = NoReport
  /\ month_log' = EmptyBag
  /\ row_months' = <<>>
  /\ UNCHANGED <<plans, cost_per_visit, rates>>

\* The branch with both comparisons inclusive.
SegmentOfInclusive(rand_val) ==
  IF rand_val <= HealthyBelow THEN [user_type |-> "Healthy", lam |-> rates.Healthy]
  ELSE IF rand_val <= AverageBelow THEN [user_type |-> "Average", lam |-> rates.Average]
  ELSE [user_type |-> "Chronic", lam |-> rates.Chronic]

\* The segment and rate of one uniform draw.
SegmentOf(rand_val) ==
  IF rand_val < HealthyBelow THEN [user_type |-> "Healthy", lam |-> rates.Healthy]
  ELSE IF rand_val < AverageBelow THEN [user_type |-> "Average", lam |-> rates.Average]
  ELSE [user_type |-> "Chronic", lam |-> rates.Chronic]

\* An iteration that goes on with the accumulators of the user before.
UserStartCarriesOver(rand_val) ==
  /\ pc = "loop"
  /\ user_id <= num_users
  /\ pc' = "months"
  /\ user_type' = SegmentOf(rand_val).user_type
  /\ lam' = SegmentOf(rand_val).lam
  /\ plan_annual_costs' = (IF user_id = 1 THEN ZeroCosts(plans, 1, <<>>) ELSE plan_annual_costs)
  /\ total_annual_visits' = (IF user_id = 1 THEN 0 ELSE total_annual_visits)
  /\ month' = 0
  /\ month_log' = EmptyBag
  /\ UNCHANGED <<plans, cost_per_visit, rates, table_exists, table, exception, num_users,
                 user_id, data_rows, report, row_months>>

\* One iteration of `for user_id in range(1, num_users + 1)`, up to the
\* head of the month loop.
UserStart(rand_val) ==
  /\ pc = "loop"
  /\ user_id <= num_users
  /\ pc' = "months"
  /\ user_type' = SegmentOf(rand_val).user_type
  /\ lam' = SegmentOf(rand_val).lam
  /\ plan_annual_costs' = ZeroCosts(plans, 1, <<>>)
  /\ total_annual_visits' = 0
  /\ month' = 0
  /\ month_log' = EmptyBag
  /\ UNCHANGED <<plans, cost_per_visit, rates, table_exists, table, exception, num_users,
                 user_id, data_rows, report, row_months>>

\* One iteration of `for _ in range(12)`: one draw, priced under every plan.
MonthStep(monthly_visits) ==
  /\ pc = "months"
  /\ month < Months
  /\ month' = month + 1
  /\ total_annual_visits' = total_annual_visits + monthly_visits
  /\ plan_annual_costs' = AddBills(plan_annual_costs, plans, 1, monthly_visits)
  /\ month_log' = month_log (+) SetToBag({monthly_visits})
  /\ UNCHANGED <<plans, cost_per_visit, rates, table_exists, table, pc, exception, num_users,
                 user_id, data_rows, user_type, lam, report, row_months>>

\* A row whose cost is charged per visit of the chosen plan's allotment.
ResultRowCostOnRevenue(uid, utype, visits, costs, cpv) ==
  LET best_plan_name == PyMinKey(costs)
      user_annual_cost == DictGet(costs, best_plan_name)
  IN  [user_id |-> uid, user_type |-> utype, annual_visits |-> visits,
       chosen_plan |-> best_plan_name, user_annual_cost |-> user_annual_cost,
       company_revenue |-> user_annual_cost, company_cost |-> user_annual_cost * cpv,
       company_profit |-> user_annual_cost - (user_annual_cost * cpv)]

\* The tuple run() appends for one user: selection and company economics.
ResultRow(uid, utype, visits, costs, cpv) ==
  LET best_plan_name == PyMinKey(costs)
      user_annual_cost == DictGet(costs, best_plan_name)
      company_revenue == user_annual_cost
      company_cost == visits * cpv
      company_profit == company_revenue - company_cost
  IN  [user_id |-> uid, user_type |-> utype, annual_visits |-> visits,
       chosen_plan |-> best_plan_name, user_annual_cost |-> user_annual_cost,
       company_revenue |-> company_revenue, company_cost |-> company_cost,
       company_profit |-> company_profit]

\* An end of iteration that moves the first plan of the catalog to its end.
RecordRowRotatesPlans ==
  /\ pc = "months"
  /\ month = Months
  /\ pc' = "loop"
  /\ data_rows' = Append(data_rows,
                         ResultRow(user_id, user_type, total_annual_visits,
                                   plan_annual_costs, cost_per_visit))
  /\ row_months' = Append(row_months, month_log)
  /\ user_id' = user_id + 1
  /\ plans' = Append(Tail(plans), Head(plans))
  /\ UNCHANGED <<cost_per_visit, rates, table_exists, table, exception, num_users,
                 user_type, lam, plan_annual_costs, total_annual_visits, month,
                 report, month_log>>

\* The end of one user iteration: the row is appended to data_rows.
RecordRow ==
  /\ pc = "months"
  /\ month = Months
  /\ pc' = "loop"
  /\ data_rows' = Append(data_rows,
                         ResultRow(user_id, user_type, total_annual_visits,
                                   plan_annual_costs, cost_per_visit))
  /\ row_months' = Append(row_months, month_log)
  /\ user_id' = user_id + 1
  /\ UNCHANGED <<plans, cost_per_visit, rates, table_exists, table, exception, num_users,
                 user_type, lam, plan_annual_costs, total_annual_visits, month,
                 report, month_log>>

\* An insert that loses the last row.
InsertAllButLast ==
  /\ pc = "loop"
  /\ user_id > num_users
  /\ pc' = "done"
  /\ table' = table \o SubSeq(data_rows, 1, Len(data_rows) - 1)
  /\ data_rows' = Unbound
  /\ user_id' = 0
  /\ LocalsUnbound
  /\ UNCHANGED <<plans, cost_per_visit, rates, table_exists, exception, num_users,
                 report, month_log, row_months>>

\* After the loop: executemany, commit, close; run() returns.
InsertAll ==
  /\ pc = "loop"
  /\ user_id > num_users
  /\ pc' = "done"
  /\ table' = table \o data_rows
  /\ data_rows' = Unbound
  /\ user_id' = 0
  /\ LocalsUnbound
  /\ UNCHANGED <<plans, cost_per_visit, rates, table_exists, exception, num_users,
                 report, month_log, row_months>>

\* ------------------------------------------------------------------ SimulationEngine.analyze

RECURSIVE ColumnSum(_, _, _)
ColumnSum(rows, col, i) ==
  IF i > Len(rows) THEN 0 ELSE rows[i][col] + ColumnSum(rows, col, i + 1)

\* The rows of a group, in table order.
RowsWhere(rows, col, value) == SelectSeq(rows, LAMBDA r : r[col] = value)

SqlCount(rows) == Len(rows)
\* A sum that misses the first row.
SqlSumSkipsFirst(rows, col) == IF rows = <<>> THEN Null ELSE Val(ColumnSum(rows, col, 2))

SqlSum(rows, col) == IF rows = <<>> THEN Null ELSE Val(ColumnSum(rows, col, 1))
SqlAvg(rows, col) == IF rows = <<>> THEN Null ELSE Val(<<ColumnSum(rows, col, 1), Len(rows)>>)

\* format(x, ',.2f') raises TypeError for None.
FormatRaises(x) == x = Null

GroupKeys(rows, col) == {rows[i][col] : i \in 1..Len(rows)}

\* The groups in every order of non-decreasing counts.
PlanDistributionsAscending(rows) ==
  LET keys == GroupKeys(rows, "chosen_plan")
      n == Cardinality(keys)
      line(key) == <<key, SqlCount(RowsWhere(rows, "chosen_plan", key)),
                     SqlAvg(RowsWhere(rows, "chosen_plan", key), "company_profit")>>
      orders == {s \in [1..n -> keys] :
                   /\ \A i, j \in 1..n : i # j => s[i] # s[j]
                   /\ \A i, j \in 1..n : i < j => line(s[i])[2] <= line(s[j])[2]}
  IN  {[i \in 1..n |-> line(s[i])] : s \in orders}

\* GROUP BY chosen_plan ORDER BY COUNT(*) DESC: every order of the groups
\* with non-increasing counts (the order among equal counts is SQLite's).
PlanDistributions(rows) ==
  LET keys == GroupKeys(rows, "chosen_plan")
      n == Cardinality(keys)
      line(key) == <<key, SqlCount(RowsWhere(rows, "chosen_plan", key)),
                     SqlAvg(RowsWhere(rows, "chosen_plan", key), "company_profit")>>
      orders == {s \in [1..n -> keys] :
                   /\ \A i, j \in 1..n : i # j => s[i] # s[j]
                   /\ \A i, j \in 1..n : i < j => line(s[i])[2] >= line(s[j])[2]}
  IN  {[i \in 1..n |-> line(s[i])] : s \in orders}

\* GROUP BY user_type: one line per segment present.
TypeEconomics(rows) ==
  {<<key, SqlAvg(RowsWhere(rows, "user_type", key), "annual_visits"),
          SqlAvg(RowsWhere(rows, "user_type", key), "company_revenue"),
          SqlAvg(RowsWhere(rows, "user_type", key), "company_profit")>> :
     key \in GroupKeys(rows, "user_type")}

\* analyze(): the three queries and what is printed of them.  A query on a
\* missing table raises sqlite3.OperationalError; formatting the NULL sum of
\* an empty table raises TypeError after the user count has been printed.
AnalyzeWith(dists) ==
  /\ pc \in {"idle", "done", "reported", "failed"}
  /\ LET total_users == SqlCount(table)
         total_profit == SqlSum(table, "company_profit")
         avg_profit == SqlAvg(table, "company_profit")
     IN  IF ~table_exists
         THEN /\ pc' = "failed"
              /\ exception' = "OperationalError"
              /\ report' = NoReport
         ELSE IF FormatRaises(total_profit) \/ FormatRaises(avg_profit)
         THEN /\ pc' = "failed"
              /\ exception' = "TypeError"
              /\ report' = [NoReport EXCEPT !.total_users = Val(total_users)]
         ELSE /\ pc' = "reported"
              /\ exception' = "none"
              /\ \E dist \in dists :
                   report' = [total_users |-> Val(total_users),
                              total_profit |-> total_profit,
                              avg_profit |-> avg_profit,
                              plan_dist |-> dist,
                              type_econ |-> TypeEconomics(table)]
  /\ UNCHANGED <<plans, cost_per_visit, rates, table_exists, table, num_users, user_id,
                 data_rows, user_type, lam, plan_annual_costs, total_annual_visits,
                 month, month_log, row_months>>

Analyze == AnalyzeWith(PlanDistributions(table))

\* ------------------------------------------------------------------ the engine
BillIdle ==
  /\ bill_pc = "idle" /\ bill_plan = 1 /\ v1 = 0 /\ v2 = 0 /\ bill1 = Null /\ bill2 = Null

PoissonIdle ==
  /\ USE_NUMPY = TRUE /\ po_pc = "idle" /\ lam_arg = 0
  /\ L = 0 /\ k = 0 /\ p = 0 /\ po_ret = Null

SegIdle ==
  /\ seg_pc = "idle" /\ seg_rand_val = 0 /\ segment = Null

ReplayIdle ==
  /\ tape = <<>> /\ sql_ties = "any" /\ run_no = 0 /\ first = Null

SimIdle ==
  /\ sim_pc = "idle" /\ sim_num_users = 0 /\ sim_user_id = Unbound
  /\ u_type = Unbound /\ sim_lam = Unbound /\ total_visits = Unbound /\ sim_month = Unbound
  /\ sim_table = <<>> /\ sim_committed = <<>>
  /\ sim_log = EmptyBag /\ sim_row_months = <<>>

PpIdle ==
  /\ pp_pc = "idle" /\ pp_num_users = 0 /\ pp_user_types = Unbound /\ pp_user_id = Unbound
  /\ pp_results = Unbound /\ pp_table = <<>> /\ pp_exception = "none"

\* The service after db.create_all() and seed_plans(): no subscription, no request.
WebIdle ==
  /\ web_pc = "idle" /\ route = "none" /\ cookie = Unbound /\ data = Unbound
  /\ g_user_id = Unbound /\ subscriptions = <<>> /\ status = 0 /\ body = Unbound
  /\ profit_total_visits = Unbound /\ ran = FALSE

LaterIdle == PpIdle /\ WebIdle

RestIdle == SegIdle /\ ReplayIdle /\ SimIdle /\ LaterIdle

\* An engine with the given plans, cost and rates on which no run() has been called.
EngineIdle(ps, cpv, rs) ==
  /\ plans = ps
  /\ cost_per_visit = cpv
  /\ rates = rs
  /\ table_exists = FALSE
  /\ table = <<>>
  /\ pc = "idle"
  /\ exception = "none"
  /\ num_users = 0
  /\ user_id = 0
  /\ data_rows = Unbound
  /\ user_type = ""
  /\ lam = 0
  /\ plan_annual_costs = Unbound
  /\ total_annual_visits = 0
  /\ month = 0
  /\ report = NoReport
  /\ month_log = EmptyBag
  /\ row_months = <<>>

\* The engine after SimulationEngine(); no run() has been called.
RunIdle == EngineIdle(EnginePlans, EngineCostPerVisit, EngineRates)

Init == RunIdle /\ BillIdle /\ PoissonIdle /\ RestIdle

Next ==
  \/ \E n \in -1..MaxUsers : RunStart(n) /\ UNCHANGED runAside
  \/ \E rand_val \in UniformDraws : UserStart(rand_val) /\ UNCHANGED runAside
  \/ /\ pc = "months"
     /\ \E monthly_visits \in VisitSupport(lam) : MonthStep(monthly_visits)
     /\ UNCHANGED runAside
  \/ RecordRow /\ UNCHANGED runAside
  \/ InsertAll /\ UNCHANGED runAside
  \/ Analyze /\ UNCHANGED runAside

Spec == Init /\ [][Next]_vars

\* The steps of run() after its head, and analyze().
EngineSteps ==
  \/ \E rand_val \in UniformDraws : UserStart(rand_val) /\ UNCHANGED runAside
  \/ /\ pc = "months"
     /\ \E monthly_visits \in VisitSupport(lam) : MonthStep(monthly_visits)
     /\ UNCHANGED runAside
  \/ RecordRow /\ UNCHANGED runAside
  \/ InsertAll /\ UNCHANGED runAside
  \/ Analyze /\ UNCHANGED runAside

\* The engine on small populations.
NextSmall ==
  \/ \E n \in 0..MaxSmallUsers : RunStart(n) /\ UNCHANGED runAside
  \/ EngineSteps

\* ------------------------------------------------------------------ an engine whose catalog the caller replaced
\* self.plans is a public attribute: the catalog of the constructor, and
\* catalogs with a repeated name, a negative price, a negative overage price.
Catalogs ==
  { EnginePlans,
    [EnginePlans EXCEPT ![2].name = "Lite"],
    [EnginePlans EXCEPT ![1].price = -20],
    [EnginePlans EXCEPT ![1].extra = -15] }

InitCatalog ==
  /\ \E ps \in Catalogs : EngineIdle(ps, EngineCostPerVisit, EngineRates)
  /\ BillIdle
  /\ PoissonIdle
  /\ RestIdle

SpecCatalog == InitCatalog /\ [][NextSmall]_vars

\* ------------------------------------------------------------------ the segment branch, applied once
\* random.random() returns a value of [0, 1): every hundredth.
AllDraws == 0..99

SegmentInput ==
  /\ seg_pc = "call" /\ seg_rand_val \in AllDraws /\ segment = Null

\* if rand_val < 0.50 ... elif rand_val < 0.80 ... else ...
SegmentBranch ==
  /\ seg_pc = "call"
  /\ seg_pc' = "return"
  /\ segment' = SegmentOf(seg_rand_val)
  /\ UNCHANGED seg_rand_val

InitSegment ==
  /\ \E e \in EngineVersions : EngineIdle(e.plans, e.cost_per_visit, e.rates)
  /\ BillIdle
  /\ PoissonIdle
  /\ SegmentInput
  /\ ReplayIdle
  /\ SimIdle
  /\ LaterIdle

NextSegment == SegmentBranch /\ UNCHANGED segAside

SpecSegment == InitSegment /\ [][NextSegment]_vars

\* ------------------------------------------------------------------ run() of both engine versions
\* Either engine version, with either of the two cost_per_visit literals.
InitVersions ==
  /\ \E e \in EngineVersions :
       \E cpv \in {EngineCostPerVisit, EngineCostPerVisit1122} :
         EngineIdle(e.plans, cpv, e.rates)
  /\ BillIdle
  /\ PoissonIdle
  /\ RestIdle

NextVersions ==
  \/ \E n \in 0..MaxSmallUsers : RunStart(n) /\ UNCHANGED runAside
  \/ \E rand_val \in UniformDraws : UserStart(rand_val) /\ UNCHANGED runAside
  \/ /\ pc = "months"
     /\ \E monthly_visits \in VisitSupport(lam) : MonthStep(monthly_visits)
     /\ UNCHANGED runAside
  \/ RecordRow /\ UNCHANGED runAside
  \/ InsertAll /\ UNCHANGED runAside

SpecVersions == InitVersions /\ [][NextVersions]_vars

\* ------------------------------------------------------------------ the script and the CLI command
\* sim = SimulationEngine(); sim.run(num_users=...)
MainRun ==
  /\ pc = "idle"
  /\ \E n \in -1..MaxSmallUsers : RunStart(n)

\* An analyze() that may be called at any point between the calls of run().
MainAnalyzeUnordered == Analyze

\* sim.analyze(), the statement after run().
MainAnalyze ==
  /\ pc = "done"
  /\ Analyze

NextMain ==
  \/ MainRun /\ UNCHANGED runAside
  \/ \E rand_val \in UniformDraws : UserStart(rand_val) /\ UNCHANGED runAside
  \/ /\ pc = "months"
     /\ \E monthly_visits \in VisitSupport(lam) : MonthStep(monthly_visits)
     /\ UNCHANGED runAside
  \/ RecordRow /\ UNCHANGED runAside
  \/ InsertAll /\ UNCHANGED runAside
  \/ MainAnalyze /\ UNCHANGED runAside

SpecMain == Init /\ [][NextMain]_vars

\* ------------------------------------------------------------------ two executions on one random source
\* The uniform draws of the source: one per segment, at and next to the thresholds.
TapeUniforms == {49, 50, 80}

\* The 12 visit draws of one user, as positions in the sample of the rate's
\* values: all low, all high, low then high, alternating.
TapeShapes ==
  { [m \in 1..Months |-> 1],
    [m \in 1..Months |-> 2],
    [m \in 1..Months |-> IF m <= 6 THEN 1 ELSE 2],
    [m \in 1..Months |-> IF m % 2 = 1 THEN 2 ELSE 1] }

TapeUsers == [rand_val : TapeUniforms, visits : TapeShapes]

Tapes == UNION {[1..n -> TapeUsers] : n \in 0..MaxTapeUsers}

\* self._generate_poisson_visit(lam) on a given point of the source.
VisitAt(rate, q) ==
  LET low == CHOOSE x \in VisitSupport(rate) : \A y \in VisitSupport(rate) : x <= y
      high == CHOOSE x \in VisitSupport(rate) : \A y \in VisitSupport(rate) : x >= y
  IN  IF q = 1 THEN low ELSE high

PlanIndex(name) == CHOOSE i \in 1..Len(plans) : plans[i].name = name

\* ORDER BY COUNT(*) DESC as one SQLite build returns it: groups of equal
\* count in one fixed order.
SqliteOrder(rows, ties) ==
  {d \in PlanDistributions(rows) :
     \A i, j \in 1..Len(d) :
       (i < j /\ d[i][2] = d[j][2]) =>
         IF ties = "catalog" THEN PlanIndex(d[i][1]) < PlanIndex(d[j][1])
         ELSE PlanIndex(d[i][1]) > PlanIndex(d[j][1])}

ReplayInput ==
  /\ tape \in Tapes
  /\ sql_ties \in {"catalog", "reverse"}
  /\ run_no = 0
  /\ first = Null

\* engine.run(num_users) on the source, for the first or the second time.
ReplayRun ==
  /\ run_no < 2
  /\ run_no = 1 => pc \in {"reported", "failed"}
  /\ RunStart(Len(tape))
  /\ run_no' = run_no + 1
  /\ first' = IF run_no = 1
              THEN [rows |-> table, report |-> report, exception |-> exception]
              ELSE first
  /\ UNCHANGED <<tape, sql_ties>>

ReplayUser ==
  /\ pc = "loop"
  /\ user_id <= num_users
  /\ UserStart(tape[user_id].rand_val)
  /\ UNCHANGED replayVars

ReplayMonth ==
  /\ pc = "months"
  /\ month < Months
  /\ MonthStep(VisitAt(lam, tape[user_id].visits[month + 1]))
  /\ UNCHANGED replayVars

\* engine.analyze() after the run.
ReplayAnalyze ==
  /\ pc = "done"
  /\ AnalyzeWith(SqliteOrder(table, sql_ties))
  /\ UNCHANGED replayVars

InitReplay ==
  RunIdle /\ BillIdle /\ PoissonIdle /\ SegIdle /\ ReplayInput /\ SimIdle /\ LaterIdle

NextReplay ==
  \/ ReplayRun /\ UNCHANGED replayAside
  \/ ReplayUser /\ UNCHANGED replayAside
  \/ ReplayMonth /\ UNCHANGED replayAside
  \/ RecordRow /\ UNCHANGED <<replayVars, replayAside>>
  \/ InsertAll /\ UNCHANGED <<replayVars, replayAside>>
  \/ ReplayAnalyze /\ UNCHANGED replayAside

SpecReplay == InitReplay /\ [][NextReplay]_vars

\* ------------------------------------------------------------------ subscription_simulator.run_simulation
\* The module-level list `plans` of Plan objects.
SimPlans ==
  << [name |-> "Lite",      monthly_price |-> 20,  included_visits |-> Fin(2),  extra_visit_price |-> 15],
     [name |-> "Standard",  monthly_price |-> 50,  included_visits |-> Fin(6),  extra_visit_price |-> 10],
     [name |-> "Chronic",   monthly_price |-> 90,  included_visits |-> Fin(12), extra_visit_price |-> 5],
     [name |-> "Unlimited", monthly_price |-> 150, included_visits |-> PosInf,  extra_visit_price |-> 0] >>

\* Plan.calculate_annual_economics: the overage is taken on the monthly
\* average annual_visits / 12.  The average and the overage are kept in
\* twelfths, so that overage * 12 * extra_visit_price is exact.
calculate_annual_economics(self, annual_visits) ==
  LET monthly_avg_visits12 == annual_visits
      monthly_overage12 ==
        IF self.included_visits = PosInf THEN 0
        ELSE Max(0, monthly_avg_visits12 - 12 * self.included_visits[2])
      annual_revenue == self.monthly_price * 12 + monthly_overage12 * self.extra_visit_price
      annual_cost == annual_visits * COST_PER_VISIT
  IN  [annual_revenue |-> annual_revenue, annual_cost |-> annual_cost,
       annual_profit |-> annual_revenue - annual_cost]

\* for plan in plans: if rev < lowest_user_cost: ...  from position i on.
RECURSIVE PlanLoop(_, _, _)
PlanLoop(i, annual_visits, best) ==
  IF i > Len(SimPlans) THEN best
  ELSE LET e == calculate_annual_economics(SimPlans[i], annual_visits)
           better == best.lowest_user_cost = PosInf
                       \/ e.annual_revenue < best.lowest_user_cost[2]
       IN  PlanLoop(i + 1, annual_visits,
                    IF better
                    THEN [best_plan_name |-> SimPlans[i].name,
                          lowest_user_cost |-> Fin(e.annual_revenue),
                          company_metrics |-> <<e.annual_revenue, e.annual_cost, e.annual_profit>>]
                    ELSE best)

BestPlan(annual_visits) ==
  PlanLoop(1, annual_visits,
           [best_plan_name |-> "", lowest_user_cost |-> PosInf, company_metrics |-> <<0, 0, 0>>])

SimSegmentOf(rand_val) ==
  IF rand_val < HealthyBelow THEN [u_type |-> "Healthy", lam |-> 2]
  ELSE IF rand_val < AverageBelow THEN [u_type |-> "Average", lam |-> 6]
  ELSE [u_type |-> "Chronic", lam |-> 25]

\* run_simulation(n), up to the head of the user loop: init_db() drops,
\* recreates and commits the empty table.
SimStart(n) ==
  /\ sim_pc \in {"idle", "done"}
  /\ sim_pc' = "loop"
  /\ sim_num_users' = n
  /\ sim_user_id' = 1
  /\ sim_table' = <<>>
  /\ sim_committed' = <<>>
  /\ sim_row_months' = <<>>
  /\ sim_log' = EmptyBag
  /\ u_type' = Unbound /\ sim_lam' = Unbound /\ total_visits' = Unbound /\ sim_month' = Unbound

\* One iteration of the user loop, up to the list comprehension of the draws.
SimUser(rand_val) ==
  /\ sim_pc = "loop"
  /\ sim_user_id <= sim_num_users
  /\ sim_pc' = "draws"
  /\ u_type' = SimSegmentOf(rand_val).u_type
  /\ sim_lam' = SimSegmentOf(rand_val).lam
  /\ total_visits' = 0
  /\ sim_month' = 0
  /\ sim_log' = EmptyBag
  /\ UNCHANGED <<sim_num_users, sim_user_id, sim_table, sim_committed, sim_row_months>>

\* One np.random.poisson(lam) of `for _ in range(12)`, added to the sum.
SimDraw(visits) ==
  /\ sim_pc = "draws"
  /\ sim_month < Months
  /\ sim_month' = sim_month + 1
  /\ total_visits' = total_visits + visits
  /\ sim_log' = sim_log (+) SetToBag({visits})
  /\ UNCHANGED <<sim_pc, sim_num_users, sim_user_id, u_type, sim_lam, sim_table,
                 sim_committed, sim_row_months>>

\* The rest of the iteration: the plan loop and the INSERT of the user's row.
SimStore ==
  /\ sim_pc = "draws"
  /\ sim_month = Months
  /\ sim_pc' = "loop"
  /\ LET best == BestPlan(total_visits)
     IN  sim_table' = Append(sim_table,
                             [user_id |-> sim_user_id, user_type |-> u_type,
                              annual_visits |-> total_visits,
                              best_plan |-> best.best_plan_name,
                              plan_revenue |-> best.company_metrics[1],
                              plan_cost |-> best.company_metrics[2],
                              plan_profit |-> best.company_metrics[3]])
  /\ sim_row_months' = Append(sim_row_months, sim_log)
  /\ sim_user_id' = sim_user_id + 1
  /\ UNCHANGED <<sim_num_users, u_type, sim_lam, total_visits, sim_month, sim_committed,
                 sim_log>>

\* After the loop: conn.commit(); run_simulation returns.
SimCommit ==
  /\ sim_pc = "loop"
  /\ sim_user_id > sim_num_users
  /\ sim_pc' = "done"
  /\ sim_committed' = sim_table
  /\ sim_user_id' = Unbound
  /\ u_type' = Unbound /\ sim_lam' = Unbound /\ total_visits' = Unbound /\ sim_month' = Unbound
  /\ UNCHANGED <<sim_num_users, sim_table, sim_log, sim_row_months>>

InitSim == RunIdle /\ BillIdle /\ PoissonIdle /\ SegIdle /\ ReplayIdle /\ SimIdle /\ LaterIdle

NextSim ==
  \/ \E n \in 0..MaxUsers : SimStart(n) /\ UNCHANGED simAside
  \/ \E rand_val \in UniformDraws : SimUser(rand_val) /\ UNCHANGED simAside
  \/ /\ sim_pc = "draws"
     /\ \E visits \in VisitSupport(sim_lam) : SimDraw(visits)
     /\ UNCHANGED simAside
  \/ SimStore /\ UNCHANGED simAside
  \/ SimCommit /\ UNCHANGED simAside

SpecSim == InitSim /\ [][NextSim]_vars

\* ------------------------------------------------------------------ run() and analyze() on more users
\* Users of a run, as points of the random source: a Healthy user drawing
\* low, one drawing high, an Average one drawing high, a Chronic one drawing
\* low then high, and one drawing high.
ReportUsers ==
  { [rand_val |-> 49, visits |-> [m \in 1..Months |-> 1]],
    [rand_val |-> 49, visits |-> [m \in 1..Months |-> 2]],
    [rand_val |-> 50, visits |-> [m \in 1..Months |-> 2]],
    [rand_val |-> 80, visits |-> [m \in 1..Months |-> IF m <= 6 THEN 1 ELSE 2]],
    [rand_val |-> 80, visits |-> [m \in 1..Months |-> 2]] }

ReportInput ==
  /\ tape \in UNION {[1..n -> ReportUsers] : n \in 0..MaxReportRows}
  /\ sql_ties \in {"catalog", "reverse"}
  /\ run_no = 0
  /\ first = Null

InitReport ==
  RunIdle /\ BillIdle /\ PoissonIdle /\ SegIdle /\ ReportInput /\ SimIdle /\ LaterIdle

SpecReport == InitReport /\ [][NextReplay]_vars

\* ------------------------------------------------------------------ run_simulation, one record per user and plan
\* ['low'] * int(n * 0.5) + ['medium'] * int(n * 0.4) + ['high'] * int(n * 0.1);
\* int() truncates, and the products are exact enough for n * 5 \div 10 etc.
UserTypeCounts(n) ==
  [low |-> (n * 5) \div 10, medium |-> (n * 4) \div 10, high |-> n \div 10]

\* np.random.shuffle(user_types): every order of the list.
Shuffles(n) ==
  LET c == UserTypeCounts(n)
      len == c.low + c.medium + c.high
  IN  {l \in [1..len -> {"low", "medium", "high"}] :
         /\ Cardinality({i \in 1..len : l[i] = "low"}) = c.low
         /\ Cardinality({i \in 1..len : l[i] = "medium"}) = c.medium
         /\ Cardinality({i \in 1..len : l[i] = "high"}) = c.high}

\* simulate_user_visits(user_type): a sample of the values of the Poisson
\* draw with lam 1, 4 or 10.
simulate_user_visits(utype) ==
  IF utype = "low" THEN {0, 3}
  ELSE IF utype = "medium" THEN {3, 7}
  ELSE IF utype = "high" THEN {7, 14}
  ELSE {0}

\* for plan_name in PLANS.keys(): results.append(...)
PlanRecords(uid, utype, visits) ==
  [i \in 1..Len(PLANS) |->
     LET e == calculate_profitability(PLANS[i], visits)
     IN  [user_id |-> uid, user_type |-> utype, plan_name |-> PLANS[i].name,
          simulated_visits |-> visits, revenue |-> e.revenue, cost |-> e.cost,
          profit |-> e.profit]]

\* run_simulation(num_users=n), up to the head of the user loop.
PpStart(n) ==
  /\ pp_pc \in {"idle", "done", "failed"}
  /\ pp_pc' = "loop"
  /\ pp_exception' = "none"
  /\ pp_num_users' = n
  /\ pp_table' = <<>>
  /\ pp_user_types' \in Shuffles(n)
  /\ pp_results' = <<>>
  /\ pp_user_id' = 0

\* One iteration of `for user_id in range(num_users)`: user_types[user_id]
\* raises IndexError past the end of the list, and the call ends there.
PpUser ==
  /\ pp_pc = "loop"
  /\ pp_user_id < pp_num_users
  /\ IF pp_user_id >= Len(pp_user_types)
     THEN /\ pp_pc' = "failed"
          /\ pp_exception' = "IndexError"
          /\ pp_results' = Unbound
          /\ pp_user_id' = Unbound
          /\ pp_user_types' = Unbound
          /\ UNCHANGED <<pp_num_users, pp_table>>
     ELSE /\ \E visits \in simulate_user_visits(pp_user_types[pp_user_id + 1]) :
               pp_results' = pp_results \o PlanRecords(pp_user_id, pp_user_types[pp_user_id + 1],
                                                       visits)
          /\ pp_user_id' = pp_user_id + 1
          /\ UNCHANGED <<pp_pc, pp_num_users, pp_user_types, pp_table, pp_exception>>

\* After the loop: executemany, commit, close.
PpInsert ==
  /\ pp_pc = "loop"
  /\ pp_user_id >= pp_num_users
  /\ pp_pc' = "done"
  /\ pp_table' = pp_table \o pp_results
  /\ pp_results' = Unbound
  /\ pp_user_id' = Unbound
  /\ pp_user_types' = Unbound
  /\ UNCHANGED <<pp_num_users, pp_exception>>

InitPerPlan == Init

NextPerPlan ==
  \/ \E n \in 0..MaxPlanUsers : PpStart(n) /\ UNCHANGED ppAside
  \/ PpUser /\ UNCHANGED ppAside
  \/ PpInsert /\ UNCHANGED ppAside

SpecPerPlan == InitPerPlan /\ [][NextPerPlan]_vars

\* ------------------------------------------------------------------ the web service: auth_required and the plan routes
\* profit(): months and cost_per_visit.
ProfitMonths == 1
ProfitCostPerVisit == 10

\* simulate_profit(): HOSPITAL_COST_PER_VISIT.
RouteCostPerVisit == 30

\* The user ids a token is issued for; 0 is the id Python takes for false.
TokenUserIds == {0, 1, 2}

\* The claims of a token: 'exp' always, 'user_id' as encode_jwt writes it or not at all.
Payloads ==
  {<< <<"exp", e>> >> : e \in {"future", "past"}}
    \cup {<< <<"user_id", u>>, <<"exp", e>> >> : u \in TokenUserIds, e \in {"future", "past"}}

\* What a request can carry as its jwt cookie: none, the empty string that
\* logout() sets, or a token, signed with JWT_SECRET or not.
Cookies ==
  {[kind |-> "none"], [kind |-> "empty"]}
    \cup {[kind |-> "jwt", signed |-> s, payload |-> pl] : s \in BOOLEAN, pl \in Payloads}

\* jwt.decode(token, JWT_SECRET, algorithms=['HS256']): the signature is
\* verified first, then the expiry.
JwtDecode(token) ==
  IF ~token.signed
  THEN [raised |-> "InvalidTokenError", payload |-> Null]
  ELSE IF DictGet(token.payload, "exp") = "past"
       THEN [raised |-> "ExpiredSignatureError", payload |-> Null]
       ELSE [raised |-> "none", payload |-> Val(token.payload)]

\* A decoder that accepts every token signed with the secret, expired or not.
DecodeJwtIgnoresExpiry(token) ==
  IF token.signed THEN Val(token.payload) ELSE Null

\* decode_jwt(token): the payload, or None.
decode_jwt(token) ==
  LET r == JwtDecode(token)
  IN  IF r.raised \in {"ExpiredSignatureError", "InvalidTokenError"} THEN Null ELSE r.payload

\* wrapper(): `payload = decode_jwt(token) if token else None`; an absent
\* cookie and the empty string are both false.
WrapperPayload(c) == IF c.kind = "jwt" THEN decode_jwt(c) ELSE Null

\* wrapper(): `not payload or not payload.get('user_id')`.
Rejected(payload) ==
  \/ payload = Null
  \/ payload[1] = <<>>
  \/ ~DictHas(payload[1], "user_id")
  \/ DictGet(payload[1], "user_id") = 0

\* The plan ids a client posts to /subscribe: those of the seeded rows and
\* one that names no row.
PlanIds == 1..(Len(SeededPlans) + 1)

\* request.get_json() by route: {'plan_id': ...} for /subscribe, nothing for a GET.
RequestJson(view) == IF view = "subscribe" THEN {Val(id) : id \in PlanIds} ELSE {Unbound}

\* SubscriptionPlan.query.get(plan_id): the row, or None.
QueryGet(plan_id) == IF plan_id \in 1..Len(SeededPlans) THEN Val(SeededPlans[plan_id]) ELSE Null

\* UserSubscription.query.filter_by(active=True).all()
ActiveSubs == SelectSeq(subscriptions, LAMBDA sub : sub.active)

\* sum(...) over a generator, as the sequence of its values
RECURSIVE PySum(_)
PySum(xs) == IF xs = <<>> THEN 0 ELSE Head(xs) + PySum(Tail(xs))

\* Python's `x or 0` on an integer: x unless x is 0.
Or0(x) == IF x = 0 THEN 0 ELSE x

\* The visit counts np.random.poisson returns in simulate_profit().
RouteVisits == {0, 7}

\* A request arrives: its route, its cookie, its JSON.  One request is
\* handled at a time; /subscribe is followed while the table has room.
Receive(view, c, json) ==
  /\ web_pc \in {"idle", "responded"}
  /\ view = "subscribe" => Len(subscriptions) < MaxSubs
  /\ web_pc' = "received"
  /\ route' = view
  /\ cookie' = c
  /\ data' = json
  /\ status' = 0 /\ body' = Unbound /\ ran' = FALSE
  /\ profit_total_visits' = Unbound
  /\ UNCHANGED <<g_user_id, subscriptions>>

\* auth_required: wrapper(), up to the call of func.
auth_required ==
  /\ web_pc = "received"
  /\ LET payload == WrapperPayload(cookie)
     IN  IF Rejected(payload)
         THEN /\ web_pc' = "responded"
              /\ status' = 401
              /\ body' = [message |-> "Token invalid or missing"]
              /\ UNCHANGED g_user_id
         ELSE /\ web_pc' = "handler"
              /\ g_user_id' = DictGet(payload[1], "user_id")
              /\ UNCHANGED <<status, body>>
  /\ UNCHANGED <<route, cookie, data, subscriptions, profit_total_visits, ran>>

\* subscribe(); start_date and end_date are not part of the row here.
subscribe ==
  /\ web_pc = "handler" /\ route = "subscribe"
  /\ LET plan_id == data[1]
         plan == QueryGet(plan_id)
     IN  IF plan = Null
         THEN /\ status' = 404
              /\ body' = [message |-> "Plan not found"]
              /\ UNCHANGED subscriptions
         ELSE /\ subscriptions' = Append(subscriptions,
                   [user_id |-> g_user_id, plan_id |-> plan_id, active |-> TRUE])
              /\ status' = 200
              /\ body' = [message |-> "Subscribed", plan |-> plan[1].name]
  /\ web_pc' = "responded" /\ ran' = TRUE
  /\ UNCHANGED <<route, cookie, data, g_user_id, profit_total_visits>>

\* profit()
profit ==
  /\ web_pc = "handler" /\ route = "profit"
  /\ LET subs == ActiveSubs
         Price(sub) == SeededPlans[sub.plan_id].price
         Visits(sub) == Or0(SeededPlans[sub.plan_id].included_visits) * ProfitMonths
         total_revenue == PySum([i \in 1..Len(subs) |-> Price(subs[i])]) * ProfitMonths
         visits == PySum([i \in 1..Len(subs) |-> Visits(subs[i])])
         total_cost == visits * ProfitCostPerVisit
         total_profit == total_revenue - total_cost
     IN  /\ profit_total_visits' = visits
         /\ body' = [revenue |-> total_revenue, cost |-> total_cost, profit |-> total_profit]
  /\ status' = 200
  /\ web_pc' = "responded" /\ ran' = TRUE
  /\ UNCHANGED <<route, cookie, data, g_user_id, subscriptions>>

\* simulate_profit(); draws[i] is the visit count drawn for the i-th subscription.
simulate_profit ==
  /\ web_pc = "handler" /\ route = "simulate_profit"
  /\ LET subs == ActiveSubs
     IN  IF subs = <<>>
         THEN body' = [message |-> "No active subscriptions to simulate."]
         ELSE \E draws \in [1..Len(subs) -> RouteVisits] :
                LET Revenue(i) == RouteRevenue(SeededPlans[subs[i].plan_id], draws[i])
                    Cost(i) == draws[i] * RouteCostPerVisit
                    Net[i \in 0..Len(subs)] ==
                      IF i = 0 THEN 0 ELSE Net[i - 1] + (Revenue(i) - Cost(i))
                IN  body' = [total_users |-> Len(subs), total_net_profit |-> Net[Len(subs)]]
  /\ status' = 200
  /\ web_pc' = "responded" /\ ran' = TRUE
  /\ UNCHANGED <<route, cookie, data, g_user_id, subscriptions, profit_total_visits>>

InitWeb == Init

NextWeb ==
  \/ \E view \in {"subscribe", "profit", "simulate_profit"} : \E c \in Cookies :
       \E json \in RequestJson(view) : Receive(view, c, json) /\ UNCHANGED webAside
  \/ auth_required /\ UNCHANGED webAside
  \/ subscribe /\ UNCHANGED webAside
  \/ profit /\ UNCHANGED webAside
  \/ simulate_profit /\ UNCHANGED webAside

SpecWeb == InitWeb /\ [][NextWeb]_vars

\* ------------------------------------------------------------------ the bill functions, applied once
\* The plans handed to the engine's bill: the catalog, and an unlimited plan
\* with an overage price.
EnginePlanInputs ==
  EnginePlans \o << [name |-> "Unlimited", price |-> 150, included |-> PosInf, extra |-> 5] >>

\* The same for calculate_profitability.
CalcPlanInputs ==
  PLANS \o << [name |-> "Unlimited", price |-> 150, included_visits |-> PosInf,
               extra_visit_price |-> 5] >>

\* The same for the route: the seeded rows, and an unlimited row with an
\* overage price.
RoutePlanInputs ==
  SeededPlans \o << [name |-> "Unlimited Plan", price |-> 150, included_visits |-> -1,
                     extra_visit_price |-> 5] >>

BillInput ==
  /\ bill_pc = "input"
  /\ bill_plan \in 1..5
  /\ v1 \in 0..MaxVisit
  /\ v2 \in 0..MaxVisit
  /\ bill1 = Null
  /\ bill2 = Null

\* The engine's monthly bill of the plan for v1 and for v2.
EngineBill ==
  /\ bill_pc = "input"
  /\ bill_pc' = "engine"
  /\ bill1' = Val(MonthlyBill(EnginePlanInputs[bill_plan], v1))
  /\ bill2' = Val(MonthlyBill(EnginePlanInputs[bill_plan], v2))
  /\ UNCHANGED <<bill_plan, v1, v2>>

\* calculate_profitability's revenue of the plan for v1 and for v2.
CalcBill ==
  /\ bill_pc = "input"
  /\ bill_pc' = "calc"
  /\ bill1' = Val(calculate_profitability(CalcPlanInputs[bill_plan], v1).revenue)
  /\ bill2' = Val(calculate_profitability(CalcPlanInputs[bill_plan], v2).revenue)
  /\ UNCHANGED <<bill_plan, v1, v2>>

\* simulate_profit's revenue of the plan for v1 and for v2.
RouteBill ==
  /\ bill_pc = "input"
  /\ bill_pc' = "route"
  /\ bill1' = Val(RouteRevenue(RoutePlanInputs[bill_plan], v1))
  /\ bill2' = Val(RouteRevenue(RoutePlanInputs[bill_plan], v2))
  /\ UNCHANGED <<bill_plan, v1, v2>>

InitBill == RunIdle /\ BillInput /\ PoissonIdle /\ RestIdle

NextBill ==
  \/ EngineBill /\ UNCHANGED billAside
  \/ CalcBill /\ UNCHANGED billAside
  \/ RouteBill /\ UNCHANGED billAside

SpecBill == InitBill /\ [][NextBill]_vars

\* ------------------------------------------------------------------ _generate_poisson_visit, called once
\* The rates tried, in tenths: 0, the two rate sets of the engine's history.
PoissonRates == {0, 2, 6, 25, 10, 50, 120}

\* math.exp(-lam) in units of 1/KnuthScale, rounded; exp(-0) is exactly 1.0.
ExpNeg(rate) ==
  CASE rate = 0 -> KnuthScale
    [] rate = 2 -> 818731
    [] rate = 6 -> 548812
    [] rate = 10 -> 367879
    [] rate = 25 -> 82085
    [] rate = 50 -> 6738
    [] rate = 120 -> 6

\* np.random.poisson(lam): a non-negative integer, 0 for lam = 0.
NumpyPoisson(rate) == IF rate = 0 THEN {0} ELSE 0..MaxVisit

PoissonCall ==
  /\ USE_NUMPY \in BOOLEAN
  /\ po_pc = "call"
  /\ lam_arg \in PoissonRates
  /\ L = 0 /\ k = 0 /\ p = 0
  /\ po_ret = Null

\* if USE_NUMPY: return np.random.poisson(lam)
NumpyReturn ==
  /\ po_pc = "call"
  /\ USE_NUMPY
  /\ \E r \in NumpyPoisson(lam_arg) : po_ret' = Val(r)
  /\ po_pc' = "returned"
  /\ UNCHANGED <<USE_NUMPY, lam_arg, L, k, p>>

\* else: L = math.exp(-lam); k = 0; p = 1.0
KnuthEnter ==
  /\ po_pc = "call"
  /\ ~USE_NUMPY
  /\ L' = ExpNeg(lam_arg)
  /\ k' = 0
  /\ p' = KnuthScale
  /\ po_pc' = "while"
  /\ UNCHANGED <<USE_NUMPY, lam_arg, po_ret>>

\* An iteration that changes neither k nor p.
KnuthStepStuck(u) ==
  /\ po_pc = "while"
  /\ p > L
  /\ UNCHANGED <<USE_NUMPY, po_pc, lam_arg, L, k, p, po_ret>>

\* One iteration of `while p > L`: k += 1; p *= random.random(), the draw
\* in hundredths.  After MaxDraws iterations only the draw 0.0 is followed.
KnuthStep(u) ==
  /\ po_pc = "while"
  /\ p > L
  /\ k < MaxDraws \/ u = 0
  /\ k' = k + 1
  /\ p' = (p * u) \div 100
  /\ UNCHANGED <<USE_NUMPY, po_pc, lam_arg, L, po_ret>>

\* The loop condition fails: return k - 1.
KnuthReturn ==
  /\ po_pc = "while"
  /\ ~(p > L)
  /\ po_ret' = Val(k - 1)
  /\ po_pc' = "returned"
  /\ UNCHANGED <<USE_NUMPY, lam_arg, L, k, p>>

InitPoisson == RunIdle /\ BillIdle /\ PoissonCall /\ RestIdle

NextPoisson ==
  \/ NumpyReturn /\ UNCHANGED poAside
  \/ KnuthEnter /\ UNCHANGED poAside
  \/ \E u \in UniformDraws : KnuthStep(u) /\ UNCHANGED poAside
  \/ KnuthReturn /\ UNCHANGED poAside

SpecPoisson == InitPoisson /\ [][NextPoisson]_vars

\* ------------------------------------------------------------------ run() called again and again on one database
\* engine.run(n), the run_no-th call; `first` keeps the row count the call found.
RerunStart ==
  /\ run_no < MaxRuns
  /\ \E n \in 0..MaxSmallUsers : RunStart(n)
  /\ run_no' = run_no + 1
  /\ first' = Len(table)
  /\ UNCHANGED <<tape, sql_ties>>

NextRerun ==
  \/ RerunStart /\ UNCHANGED replayAside
  \/ EngineSteps

SpecRerun == Init /\ [][NextRerun]_vars

\* ------------------------------------------------------------------ the script, then one call of the generator
\* self._generate_poisson_visit(lam), called on its own after the script.
PoissonStart ==
  /\ pc \in {"reported", "failed"}
  /\ po_pc = "idle"
  /\ USE_NUMPY' \in BOOLEAN
  /\ po_pc' = "call"
  /\ lam_arg' \in PoissonRates
  /\ L' = 0 /\ k' = 0 /\ p' = 0
  /\ po_ret' = Null

NextTerm ==
  \/ NextMain
  \/ PoissonStart /\ UNCHANGED poAside
  \/ NextPoisson

\* A single thread: the statement at hand is executed.
SpecTerm == Init /\ [][NextTerm]_vars /\ WF_vars(NextTerm)

\* ------------------------------------------------------------------ properties
\* The bill as the specification words it.
ClaimedBill(price, unlimited, included, extra, visits) ==
  price + (IF unlimited THEN 0 ELSE Max(0, visits - included)) * extra

EngineClaimedBill(plan, visits) ==
  ClaimedBill(plan.price, plan.included = PosInf, plan.included[2], plan.extra, visits)

\* The annual cost of a plan recomputed from a user's monthly draws.
RECURSIVE AnnualCostOver(_, _, _)
AnnualCostOver(plan, log, values) ==
  IF values = {} THEN 0
  ELSE LET v == CHOOSE x \in values : TRUE
       IN  CopiesIn(v, log) * EngineClaimedBill(plan, v)
             + AnnualCostOver(plan, log, values \ {v})

AnnualCost(plan, log) == AnnualCostOver(plan, log, BagToSet(log))

\* The recomputed annual cost of every plan, by catalog position.
AnnualCosts(log) == [j \in 1..Len(plans) |-> AnnualCost(plans[j], log)]

MinAnnualCost(log) ==
  LET costs == AnnualCosts(log)
  IN  CHOOSE c \in {costs[j] : j \in DOMAIN costs} : \A j \in DOMAIN costs : c <= costs[j]

\* The plans that attain the minimum, by catalog position.
Cheapest(log) ==
  LET costs == AnnualCosts(log)
  IN  {j \in DOMAIN costs : \A j2 \in DOMAIN costs : costs[j] <= costs[j2]}

RECURSIVE VisitsOver(_, _)
VisitsOver(log, values) ==
  IF values = {} THEN 0
  ELSE LET v == CHOOSE x \in values : TRUE
       IN  CopiesIn(v, log) * v + VisitsOver(log, values \ {v})

\* The sum of a user's monthly draws.
VisitsIn(log) == VisitsOver(log, BagToSet(log))

\* The rows run() has produced: data_rows while it runs, the table after.
RecordedRows == IF pc \in {"loop", "months"} THEN data_rows ELSE table

\* C1: every row's user_annual_cost is the minimum over the catalog of the
\* annual cost recomputed from that user's 12 monthly visit counts.
C1_SelectionOptimal ==
  \A i \in 1..Len(RecordedRows) :
    /\ BagCardinality(row_months[i]) = Months
    /\ RecordedRows[i].user_annual_cost = MinAnnualCost(row_months[i])

\* C1 witness: a finished run whose two users chose the last and the second plan.
C1_Witness ==
  /\ pc = "done"
  /\ Len(table) = 2
  /\ table[1].chosen_plan = "Unlimited"
  /\ table[2].chosen_plan = "Standard"

\* C2: when several plans attain the minimum annual cost, the row's
\* chosen_plan is the first of them in catalog order.
C2_TieBreakFirst ==
  \A i \in 1..Len(RecordedRows) :
    LET tied == Cheapest(row_months[i])
    IN  \A j \in tied :
          (\A j2 \in tied : j <= j2) => RecordedRows[i].chosen_plan = plans[j].name

\* C2 witness: a recorded row of a user for whom two plans tie at the minimum.
C2_Witness ==
  \E i \in 1..Len(RecordedRows) :
    /\ Cardinality(Cheapest(row_months[i])) >= 2
    /\ RecordedRows[i].chosen_plan = "Chronic"

\* C3: _generate_poisson_visit returns an integer >= 0 for every rate >= 0
\* and every sequence of draws, and exactly 0 for rate 0.
C3_PoissonNonNegative ==
  po_pc = "returned" =>
    /\ po_ret[1] >= 0
    /\ lam_arg = 0 => po_ret[1] = 0

\* C4: the monthly bill of a plan for v visits is price + overage * extra,
\* overage 0 for an unlimited plan and max(0, v - included) otherwise.
C4_MonthlyBillFormula ==
  /\ bill_pc = "engine" =>
       /\ bill1 = Val(EngineClaimedBill(EnginePlanInputs[bill_plan], v1))
       /\ bill2 = Val(EngineClaimedBill(EnginePlanInputs[bill_plan], v2))
  /\ bill_pc = "calc" =>
       LET plan == CalcPlanInputs[bill_plan]
           claimed(v) == ClaimedBill(plan.price, plan.included_visits = PosInf,
                                     plan.included_visits[2], plan.extra_visit_price, v)
       IN  bill1 = Val(claimed(v1)) /\ bill2 = Val(claimed(v2))

\* C4 witness: the Lite plan billed for 5 visits, 3 of them overage.
C4_Witness ==
  /\ bill_pc = "engine"
  /\ bill_plan = 1
  /\ v1 = 5
  /\ bill1 = Val(65)

\* C5: for an unlimited plan, encoded as +infinity in the engine and as -1
\* in the stored plan table, the bill is the monthly price for every visit
\* count, whatever the overage price.
C5_UnlimitedInvariance ==
  /\ (bill_pc = "engine" /\ EnginePlanInputs[bill_plan].included = PosInf) =>
       /\ bill1 = Val(EnginePlanInputs[bill_plan].price)
       /\ bill2 = Val(EnginePlanInputs[bill_plan].price)
  /\ (bill_pc = "route" /\ RoutePlanInputs[bill_plan].included_visits = -1) =>
       /\ bill1 = Val(RoutePlanInputs[bill_plan].price)
       /\ bill2 = Val(RoutePlanInputs[bill_plan].price)

\* C5 witness: the stored unlimited plan with an overage price, 30 visits.
C5_Witness ==
  /\ bill_pc = "route"
  /\ RoutePlanInputs[bill_plan].included_visits = -1
  /\ RoutePlanInputs[bill_plan].extra_visit_price > 0
  /\ v1 = 30
  /\ bill1 = Val(150)

\* C6: for every plan of the catalog and v1 <= v2, the bill for v1 is at
\* most the bill for v2.
C6_Monotone ==
  (bill_pc = "engine" /\ v1 <= v2) => bill1[1] <= bill2[1]

\* C6 witness: the Standard plan at 6 and at 7 visits, the bill rising.
C6_Witness ==
  /\ bill_pc = "engine"
  /\ bill_plan = 2
  /\ v1 = 6 /\ v2 = 7
  /\ bill1 = Val(50) /\ bill2 = Val(60)

\* C7: a completed run(N), N >= 0, has recorded exactly N rows whose
\* user_id values are 1..N in order.
C7_RowCountIdentity ==
  (pc \in {"done", "reported", "failed"} /\ table_exists /\ num_users >= 0) =>
    /\ Len(table) = num_users
    /\ \A i \in 1..Len(table) : table[i].user_id = i

\* C7 witness: a completed run of two users.
C7_Witness ==
  /\ pc = "done"
  /\ num_users = 2
  /\ Len(table) = 2
  /\ table[2].user_id = 2

\* C8: in every row annual_visits is the sum of the user's 12 draws,
\* company_revenue is user_annual_cost, the winning plan's accumulated cost,
\* company_cost is annual_visits * cost_per_visit and company_profit is
\* company_revenue - company_cost.
C8_RowEconomics ==
  \A i \in 1..Len(RecordedRows) :
    LET r == RecordedRows[i] IN
    /\ r.annual_visits = VisitsIn(row_months[i])
    /\ r.company_revenue = r.user_annual_cost
    /\ \E j \in 1..Len(plans) :
         /\ plans[j].name = r.chosen_plan
         /\ r.user_annual_cost = AnnualCost(plans[j], row_months[i])
    /\ r.company_cost = r.annual_visits * cost_per_visit
    /\ r.company_profit = r.company_revenue - r.company_cost

\* C8 witness: a recorded row with visits, a cost and a loss.
C8_Witness ==
  \E i \in 1..Len(RecordedRows) :
    /\ RecordedRows[i].annual_visits = 360
    /\ RecordedRows[i].company_cost = 3600
    /\ RecordedRows[i].company_profit = -1800

\* C9: run(0) followed by analyze() leaves an empty row set and a report
\* of zero users, and neither call raises.
C9_ZeroUsersNoOp ==
  (num_users = 0 /\ table_exists /\ pc \in {"done", "reported", "failed"}) =>
    /\ table = <<>>
    /\ exception = "none"
    /\ pc # "done" => report.total_users = Val(0)

\* C10: run(n) with n < 0 ends in an error and records no row.
C10_NegativeRejected ==
  num_users < 0 =>
    /\ ~(pc = "done" /\ exception = "none")
    /\ RecordedRows = <<>>

\* A catalog the specification accepts: names unique, no negative price.
ValidCatalog(ps) ==
  /\ \A i, j \in 1..Len(ps) : i # j => ps[i].name # ps[j].name
  /\ \A i \in 1..Len(ps) : ps[i].price >= 0 /\ ps[i].extra >= 0

\* C11: with a catalog that repeats a name or has a negative price or
\* overage price, run() fails before the first user: no user is simulated
\* and no row is ever produced.
C11_InvalidCatalogFailsFast ==
  ~ValidCatalog(plans) =>
    /\ pc # "months"
    /\ RecordedRows = <<>>

\* The sum of company_profit over a set of row positions of the table.
RECURSIVE ProfitOver(_)
ProfitOver(positions) ==
  IF positions = {} THEN 0
  ELSE LET i == CHOOSE x \in positions : TRUE
       IN  table[i].company_profit + ProfitOver(positions \ {i})

\* C12: the total profit analyze() reports is the sum of company_profit
\* over exactly the rows the preceding run recorded, each counted once.
C12_Conservation ==
  pc = "reported" =>
    /\ Len(table) = Len(row_months)
    /\ report.total_users = Val(Len(row_months))
    /\ report.total_profit = Val(ProfitOver(1..Len(row_months)))

\* C12 witness: a report over two rows, one with a profit and one with a loss.
C12_Witness ==
  /\ pc = "reported"
  /\ Len(table) = 2
  /\ table[1].company_profit > 0
  /\ table[2].company_profit < 0
  /\ report.total_profit = Val(table[1].company_profit + table[2].company_profit)

\* C13: every uniform draw u gets exactly one segment and that segment's
\* rate: Healthy for u < 0.50, Average for 0.50 <= u < 0.80, Chronic otherwise.
C13_SegmentPartition ==
  seg_pc = "return" =>
    /\ segment.user_type =
         (IF seg_rand_val < 50 THEN "Healthy"
          ELSE IF seg_rand_val >= 50 /\ seg_rand_val < 80 THEN "Average"
          ELSE "Chronic")
    /\ segment.lam = rates[segment.user_type]

\* C13 witness: the draw 0.50 itself has been assigned, to Average.
C13_Witness ==
  /\ seg_pc = "return"
  /\ seg_rand_val = 50
  /\ segment.user_type = "Average"

Simulating == pc \in {"loop", "months"}
Reporting == pc \in {"reported", "failed"}

\* C15: within one run of the script the engine simulates, then reports:
\* once reporting it never simulates again, and the report is computed only
\* after run() has returned, over all N rows.
C15_PhaseOrder ==
  [][/\ Reporting => ~Simulating'
     /\ (~Reporting /\ Reporting') =>
          /\ pc = "done"
          /\ table' = table
          /\ num_users >= 0 =>
               /\ Len(table) = num_users
               /\ report'.total_users = Val(num_users)]_vars

\* C15 witness: the script has simulated a user and then reported on the row.
C15_Witness ==
  /\ pc = "reported"
  /\ num_users = 1
  /\ Len(table) = 1
  /\ report.total_users = Val(1)

\* C16: the rows of a run are written to storage once, after the row of the
\* last user has been computed: while a user is still to be simulated,
\* nothing has been written.
C16_BatchPersistence ==
  /\ (Simulating /\ user_id <= num_users) => table = <<>>
  /\ (sim_pc \in {"loop", "draws"} /\ sim_user_id <= sim_num_users) => sim_table = <<>>

\* Twelve monthly draws of 6 visits each.
TwelveSixes == [v \in {6} |-> 12]

\* C17: Scenario A.  With the four default plans and cost_per_visit = 30, a
\* user who draws 6 visits in each of the 12 months has the annual costs
\* 960, 600, 1080 and 1800 under Lite, Standard, Chronic and Unlimited, and
\* the row records the Standard plan, user_annual_cost 600, company_cost
\* 2160 and company_profit -1560.
C17_ScenarioA ==
  cost_per_visit = 30 =>
    /\ (pc = "months" /\ month = 12 /\ month_log = TwelveSixes) =>
         [i \in 1..4 |-> plan_annual_costs[i][2]] = <<960, 600, 1080, 1800>>
    /\ \A i \in 1..Len(RecordedRows) :
         row_months[i] = TwelveSixes =>
           /\ RecordedRows[i].chosen_plan = plans[2].name
           /\ RecordedRows[i].chosen_plan \in {"Standard", "Standard Plan"}
           /\ RecordedRows[i].annual_visits = 72
           /\ RecordedRows[i].user_annual_cost = 600
           /\ RecordedRows[i].company_revenue = 600
           /\ RecordedRows[i].company_cost = 2160
           /\ RecordedRows[i].company_profit = -1560

\* C17 witness: the row of such a user is in the table of the engine whose
\* cost_per_visit is 30.
C17_Witness ==
  /\ cost_per_visit = 30
  /\ plans = EnginePlans1122
  /\ pc = "done"
  /\ Len(table) = 1
  /\ row_months[1] = TwelveSixes
  /\ table[1].company_profit = -1560

\* C18: every step of the month loop takes exactly one draw and prices that
\* same draw under every plan of the catalog, and a user's row is recorded
\* after exactly 12 such draws.
C18_OneDrawPerMonth ==
  [][/\ (pc = "months" /\ pc' = "months") =>
          \E v \in 0..MaxVisit :
            /\ month_log' = month_log (+) SetToBag({v})
            /\ month' = month + 1
            /\ total_annual_visits' = total_annual_visits + v
            /\ \A j \in 1..Len(plans) :
                 DictGet(plan_annual_costs', plans[j].name)
                   = DictGet(plan_annual_costs, plans[j].name) + EngineClaimedBill(plans[j], v)
     /\ (pc = "loop" /\ pc' = "months") => month_log' = EmptyBag
     /\ (pc = "months" /\ pc' = "loop") =>
          /\ BagCardinality(month_log) = 12
          /\ month = 12]_vars

\* C18 witness: a user's twelfth draw has been priced, the draws not all equal.
C18_Witness ==
  /\ pc = "months"
  /\ month = 12
  /\ BagCardinality(month_log) = 12
  /\ Cardinality(BagToSet(month_log)) = 2

\* A Plan object of the simulator, as a catalog entry.
SimPlanNamed(name) ==
  LET self == CHOOSE q \in {SimPlans[i] : i \in 1..Len(SimPlans)} : q.name = name
  IN  [name |-> self.name, price |-> self.monthly_price,
       included |-> self.included_visits, extra |-> self.extra_visit_price]

\* C19: a plan's annual cost for a user is the sum of the 12 monthly bills,
\* each computed from that month's own visit count: so are the running
\* costs of the engine and the revenue of every row the simulator stores.
C19_MonthByMonth ==
  /\ pc = "months" =>
       \A j \in 1..Len(plans) :
         DictGet(plan_annual_costs, plans[j].name) = AnnualCost(plans[j], month_log)
  /\ \A i \in 1..Len(sim_table) :
       sim_table[i].plan_revenue
         = AnnualCost(SimPlanNamed(sim_table[i].best_plan), sim_row_months[i])

\* The table positions whose row chose the plan.
RowsChoosing(name) == {i \in 1..Len(table) : table[i].chosen_plan = name}

\* C20: the report has one line for every plan some row chose and none for
\* the others: the line gives the number of rows that chose the plan and
\* their average company_profit, the lines are in order of descending
\* count, and a plan nobody chose makes analyze() raise nothing.
C20_PerPlanReport ==
  (pc # "done" /\ table # <<>>) =>
    /\ pc = "reported"
    /\ exception = "none"
    /\ LET lines == report.plan_dist
       IN  /\ {lines[n][1] : n \in 1..Len(lines)} = {table[i].chosen_plan : i \in 1..Len(table)}
           /\ \A n, n2 \in 1..Len(lines) : n # n2 => lines[n][1] # lines[n2][1]
           /\ \A n \in 1..Len(lines) :
                /\ lines[n][2] = Cardinality(RowsChoosing(lines[n][1]))
                /\ lines[n][2] > 0
                /\ lines[n][3] = Val(<<ProfitOver(RowsChoosing(lines[n][1])), lines[n][2]>>)
           /\ \A n, n2 \in 1..Len(lines) : n < n2 => lines[n][2] >= lines[n2][2]

\* C20 witness: a report on three rows, two of one plan and one of another,
\* in a catalog of four.
C20_Witness ==
  /\ pc = "reported"
  /\ Len(table) = 3
  /\ Len(report.plan_dist) = 2
  /\ report.plan_dist[1][2] = 2
  /\ report.plan_dist[2][2] = 1
  /\ table[1].chosen_plan = report.plan_dist[2][1]

C22_CatalogReadOnly ==
  [][/\ plans' = plans
     /\ cost_per_visit' = cost_per_visit]_vars

\* C22 witness: a run and its report are over, the catalog is the one of the
\* constructor.
C22_Witness ==
  /\ pc = "reported"
  /\ Len(table) = 1
  /\ plans = EnginePlans
  /\ cost_per_visit = EngineCostPerVisit

\* The rate of the segment of a uniform draw, by the thresholds.
RateOfDraw(u) ==
  IF u < 50 THEN rates.Healthy ELSE IF u < 80 THEN rates.Average ELSE rates.Chronic

\* The 12 visit draws of one user of the random source, as a bag.
OwnLog(t) ==
  LET draw(m) == VisitAt(RateOfDraw(t.rand_val), t.visits[m])
  IN  [v \in {draw(m) : m \in 1..12} |-> Cardinality({m \in 1..12 : draw(m) = v})]

\* C23: a user's accumulators and visit total hold that user's own draws
\* only, from zero, and every recorded row k is what user k's own segment
\* draw and 12 visit draws give, whatever the other users drew; rows
\* already recorded therefore never change.
C23_UserIsolation ==
  /\ pc = "months" =>
       /\ BagCardinality(month_log) = month
       /\ total_annual_visits = VisitsIn(month_log)
       /\ \A j \in 1..Len(plans) :
            DictGet(plan_annual_costs, plans[j].name) = AnnualCost(plans[j], month_log)
  /\ \A i \in 1..Len(RecordedRows) :
       LET own == OwnLog(tape[i])
           row == RecordedRows[i]
       IN  /\ row.user_id = i
           /\ row.user_type = (IF tape[i].rand_val < 50 THEN "Healthy"
                               ELSE IF tape[i].rand_val < 80 THEN "Average" ELSE "Chronic")
           /\ row.annual_visits = VisitsIn(own)
           /\ row.user_annual_cost = MinAnnualCost(own)
           /\ \E j \in Cheapest(own) : row.chosen_plan = plans[j].name
           /\ row.company_revenue = MinAnnualCost(own)
           /\ row.company_cost = VisitsIn(own) * cost_per_visit
           /\ row.company_profit = MinAnnualCost(own) - VisitsIn(own) * cost_per_visit

\* C23 witness: the second user is in the month loop with draws of their
\* own, after a first user of another segment whose row is recorded.
C23_Witness ==
  /\ pc = "months"
  /\ user_id = 2
  /\ month = 12
  /\ Len(data_rows) = 1
  /\ data_rows[1].user_type # user_type
  /\ data_rows[1].annual_visits > 0
  /\ total_annual_visits > 0

\* C24: after a further run(n) on the same database the table holds the n
\* rows of that run, with the ids 1..n, and nothing of the runs before: it
\* is empty while the run simulates.
C24_RerunResets ==
  run_no >= 2 =>
    /\ Simulating => table = <<>>
    /\ pc \in {"done", "reported", "failed"} =>
         /\ Len(table) = num_users
         /\ \A i \in 1..Len(table) :
              /\ table[i].user_id = i
              /\ table[i].annual_visits = VisitsIn(row_months[i])
              /\ table[i].user_annual_cost = MinAnnualCost(row_months[i])

\* C24 witness: a second run on a table that held a row has returned, with
\* its own row.
C24_Witness ==
  /\ run_no = 2
  /\ first = 1
  /\ pc = "done"
  /\ Len(table) = 1
  /\ table[1].user_id = 1

\* C25: with the default catalog and draws >= 0, the chosen_plan of every
\* recorded row names a plan of the catalog, and its user_annual_cost lies
\* between 12 times the lowest monthly price (240) and 12 times the price
\* of the Unlimited plan (1800).
C25_CostBounds ==
  \A i \in 1..Len(RecordedRows) :
    LET row == RecordedRows[i]
    IN  /\ \E j \in 1..Len(plans) : row.chosen_plan = plans[j].name
        /\ \A j \in 1..Len(plans) : row.user_annual_cost >= 12 * plans[j].price
             \/ \E j2 \in 1..Len(plans) : plans[j2].price < plans[j].price
        /\ row.user_annual_cost >= 240
        /\ row.user_annual_cost <= 12 * plans[4].price
        /\ row.user_annual_cost <= 1800

\* C25 witness: both bounds are met, by a user without visits on the
\* cheapest plan and by a user of 30 visits a month on the Unlimited plan.
C25_Witness ==
  /\ pc = "done"
  /\ Len(table) = 2
  /\ table[1].user_annual_cost = 240
  /\ table[1].annual_visits = 0
  /\ table[2].user_annual_cost = 1800
  /\ table[2].chosen_plan = "Unlimited"
  /\ table[2].annual_visits = 360

\* C26: run_simulation(num_users) of the record-per-user-and-plan variant
\* ends without an error for every num_users >= 0 and inserts exactly
\* num_users * |PLANS| records, one for every pair of a user and a plan.
C26_PerPlanRecords ==
  pp_pc \in {"done", "failed"} =>
    /\ pp_pc = "done"
    /\ pp_exception = "none"
    /\ Len(pp_table) = pp_num_users * Len(PLANS)
    /\ \A u \in 0..(pp_num_users - 1) : \A j \in 1..Len(PLANS) :
         Cardinality({i \in 1..Len(pp_table) :
                        /\ pp_table[i].user_id = u
                        /\ pp_table[i].plan_name = PLANS[j].name
                        /\ pp_table[i].user_type \in {"low", "medium", "high"}}) = 1

\* C27: the visit total and the cost that /profit reports are never negative,
\* whatever the active subscriptions are (Unlimited ones, stored with
\* included_visits = -1, included), so the profit never exceeds the revenue.
C27_ProfitTotalsNonNegative ==
  (web_pc = "responded" /\ route = "profit" /\ ran) =>
    /\ profit_total_visits >= 0
    /\ body.cost >= 0
    /\ body.profit <= body.revenue

\* The cookie is missing, or its token is invalid or expired.
MissingExpiredOrInvalid(c) ==
  \/ c.kind # "jwt"
  \/ ~c.signed
  \/ DictGet(c.payload, "exp") = "past"

\* The cookie is a token that decodes to a payload with a user_id.
DecodesWithUserId(c) ==
  /\ ~MissingExpiredOrInvalid(c)
  /\ DictHas(c.payload, "user_id")

\* C28: a view function wrapped by auth_required runs only for a request
\* whose jwt cookie decodes to a payload with a user_id, and under that
\* user_id; a request with a missing, expired or invalid token is answered
\* 401 without the view function being called, without a subscription being
\* created and without any other change of state.
C28_AuthGate ==
  /\ [](web_pc = "handler" \/ ran =>
          /\ DecodesWithUserId(cookie)
          /\ g_user_id = DictGet(cookie.payload, "user_id"))
  /\ [](status = 401 => ~ran)
  /\ [][(web_pc = "received" /\ MissingExpiredOrInvalid(cookie)) =>
          /\ web_pc' = "responded" /\ status' = 401
          /\ ~ran'
          /\ subscriptions' = subscriptions
          /\ g_user_id' = g_user_id]_vars

\* A /subscribe request with an expired token of user 1 was answered 401
\* while the table holds the subscription an earlier, authenticated request made.
C28_Witness ==
  /\ web_pc = "responded" /\ route = "subscribe" /\ status = 401 /\ ~ran
  /\ cookie.kind = "jwt" /\ cookie.signed
  /\ cookie.payload = << <<"user_id", 1>>, <<"exp", "past">> >>
  /\ Len(subscriptions) = 1 /\ subscriptions[1].user_id = 1

====
